---- MODULE Spec2Model ----
(***************************************************************************)
(* week1/brochure.py: the brochure generator.  One run of main is a state  *)
(* machine whose steps are the stretches of code between two outbound      *)
(* calls (page fetcher, model endpoint); the answers of the fetcher and of *)
(* the model endpoint are the inputs, drawn from small sets.               *)
(*                                                                         *)
(* Text is TLA+ strings, one character per position: Len, \o and SubSeq    *)
(* are Python's len, + and slicing.  The three pictographs of the banner   *)
(* are written as ASCII tags.                                              *)
(***************************************************************************)
EXTENDS Integers, Sequences, FiniteSets, TLC

\* ------------------------------------------------------------ bounds
\* the most link records in one link-selection answer
MaxLinks == 2
\* the most incremental fragments in one brochure answer
MaxFrags == 2

\* ------------------------------------------------------------ text helpers
Min(a, b) == IF a <= b THEN a ELSE b

\* the i-th character of s (s[i-1] in Python)
CharAt(s, i) == SubSeq(s, i, i)

\* s[a-1:] for 1 <= a
Drop(s, a) == IF a > Len(s) THEN "" ELSE SubSeq(s, a, Len(s))

\* n copies of the character c
RECURSIVE Rep(_, _)
Rep(c, n) ==
  IF n <= 0 THEN ""
  ELSE IF n % 2 = 1 THEN c \o Rep(c, n - 1)
  ELSE LET h == Rep(c, n \div 2) IN h \o h

\* sub in s (Python's `in` on str)
Contains(s, sub) ==
  \E i \in 1..(Len(s) - Len(sub) + 1) : SubSeq(s, i, i + Len(sub) - 1) = sub

\* s.startswith(p), s.endswith(p)
StartsWith(s, p) == Len(p) <= Len(s) /\ SubSeq(s, 1, Len(p)) = p
EndsWith(s, p) == Len(p) <= Len(s) /\ Drop(s, Len(s) - Len(p) + 1) = p

\* the number of (possibly overlapping) places where sub starts in s
Occurrences(s, sub) ==
  Cardinality({i \in 1..(Len(s) - Len(sub) + 1) : SubSeq(s, i, i + Len(sub) - 1) = sub})

\* sep.join(xs)
RECURSIVE Join(_, _)
Join(sep, xs) ==
  IF xs = <<>> THEN ""
  ELSE IF Len(xs) = 1 THEN xs[1]
  ELSE xs[1] \o sep \o Join(sep, Tail(xs))

\* str(n) for an int n >= 0
Digit(d) == CharAt("0123456789", d + 1)
RECURSIVE Str(_)
Str(n) == IF n < 10 THEN Digit(n) ELSE Str(n \div 10) \o Digit(n % 10)

\* all sequences over S of length at most n
RECURSIVE SeqsUpTo(_, _)
SeqsUpTo(S, n) ==
  IF n = 0 THEN {<<>>}
  ELSE LET r == SeqsUpTo(S, n - 1)
       IN r \cup {Append(q, x) : q \in {p \in r : Len(p) = n - 1}, x \in S}

\* ------------------------------------------------------------ json.loads
\* JSON values, tagged: [t |-> "str", s], [t |-> "num", n], [t |-> "null"],
\* [t |-> "arr", a |-> <<values>>], [t |-> "obj", o |-> <<[k, v], ...>>]
\* (members in document order).  A parse step is [ok, v, p]: the value read
\* and the position after it.
JStr(s) == [t |-> "str", s |-> s]
JNum(n) == [t |-> "num", n |-> n]
JNull == [t |-> "null"]
JArr(a) == [t |-> "arr", a |-> a]
JObj(o) == [t |-> "obj", o |-> o]
JFail == [ok |-> FALSE]
JOk(v, p) == [ok |-> TRUE, v |-> v, p |-> p]

IsWs(c) == c \in {" ", "\n", "\t", "\r"}
IsDigit(c) == c \in {"0", "1", "2", "3", "4", "5", "6", "7", "8", "9"}
DigitVal(c) == CHOOSE d \in 0..9 : Digit(d) = c

\* the first position at or after p that holds no whitespace
RECURSIVE SkipWs(_, _)
SkipWs(s, p) == IF p <= Len(s) /\ IsWs(CharAt(s, p)) THEN SkipWs(s, p + 1) ELSE p

\* the position of the closing quote of the string whose text starts at p,
\* 0 when there is none (escapes do not occur in the answers of the model)
RECURSIVE CloseQuote(_, _)
CloseQuote(s, p) ==
  IF p > Len(s) THEN 0
  ELSE IF CharAt(s, p) = "\"" THEN p
  ELSE IF CharAt(s, p) = "\\" THEN 0
  ELSE CloseQuote(s, p + 1)

\* a string literal whose opening quote is at p
ParseString(s, p) ==
  LET q == CloseQuote(s, p + 1)
  IN IF q = 0 THEN JFail ELSE JOk(JStr(SubSeq(s, p + 1, q - 1)), q + 1)

\* an unsigned integer starting at p, acc the value of the digits read
RECURSIVE ParseDigits(_, _, _)
ParseDigits(s, p, acc) ==
  IF p <= Len(s) /\ IsDigit(CharAt(s, p))
  THEN ParseDigits(s, p + 1, 10 * acc + DigitVal(CharAt(s, p)))
  ELSE JOk(JNum(acc), p)

RECURSIVE ParseValue(_, _)
RECURSIVE ParseElements(_, _, _)
RECURSIVE ParseMembers(_, _, _)

\* the elements of an array after "[" or ",", acc the elements read
ParseElements(s, p, acc) ==
  LET e == ParseValue(s, p)
  IN IF ~e.ok THEN JFail
     ELSE LET q == SkipWs(s, e.p)
              c == IF q <= Len(s) THEN CharAt(s, q) ELSE ""
          IN IF c = "," THEN ParseElements(s, q + 1, Append(acc, e.v))
             ELSE IF c = "]" THEN JOk(JArr(Append(acc, e.v)), q + 1)
             ELSE JFail

\* the members of an object after "{" or ",", acc the members read
ParseMembers(s, p, acc) ==
  LET k == SkipWs(s, p)
  IN IF k > Len(s) \/ CharAt(s, k) # "\"" THEN JFail
     ELSE LET key == ParseString(s, k)
          IN IF ~key.ok THEN JFail
             ELSE LET col == SkipWs(s, key.p)
                  IN IF col > Len(s) \/ CharAt(s, col) # ":" THEN JFail
                     ELSE LET e == ParseValue(s, col + 1)
                          IN IF ~e.ok THEN JFail
                             ELSE LET q == SkipWs(s, e.p)
                                      c == IF q <= Len(s) THEN CharAt(s, q) ELSE ""
                                      m == Append(acc, [k |-> key.v.s, v |-> e.v])
                                  IN IF c = "," THEN ParseMembers(s, q + 1, m)
                                     ELSE IF c = "}" THEN JOk(JObj(m), q + 1)
                                     ELSE JFail

\* one JSON value starting at or after p
ParseValue(s, p) ==
  LET q == SkipWs(s, p)
      c == IF q <= Len(s) THEN CharAt(s, q) ELSE ""
  IN IF c = "\"" THEN ParseString(s, q)
     ELSE IF c = "[" THEN
       LET r == SkipWs(s, q + 1)
       IN IF r <= Len(s) /\ CharAt(s, r) = "]" THEN JOk(JArr(<<>>), r + 1)
          ELSE ParseElements(s, q + 1, <<>>)
     ELSE IF c = "{" THEN
       LET r == SkipWs(s, q + 1)
       IN IF r <= Len(s) /\ CharAt(s, r) = "}" THEN JOk(JObj(<<>>), r + 1)
          ELSE ParseMembers(s, q + 1, <<>>)
     ELSE IF StartsWith(Drop(s, q), "null") THEN JOk(JNull, q + 4)
     ELSE IF IsDigit(c) THEN ParseDigits(s, q, 0)
     ELSE JFail

\* json.loads(s): [ok |-> TRUE, v |-> value], or [ok |-> FALSE] for the
\* JSONDecodeError (no value, or text after the value)
JsonLoads(s) ==
  LET r == ParseValue(s, 1)
  IN IF r.ok /\ SkipWs(s, r.p) = Len(s) + 1 THEN [ok |-> TRUE, v |-> r.v] ELSE JFail

\* ------------------------------------------------------------ Python on parsed JSON
\* The outcome of an expression that may raise: [ok |-> TRUE, v |-> value] or
\* [ok |-> FALSE, exc |-> the exception's class].
Ok(v) == [ok |-> TRUE, v |-> v]
Raise(exc) == [ok |-> FALSE, exc |-> exc]

\* the keys of a dict in insertion order (a repeated key keeps its first place)
RECURSIVE Keys(_)
Keys(o) ==
  IF o = <<>> THEN <<>>
  ELSE LET front == Keys(SubSeq(o, 1, Len(o) - 1))
           k == o[Len(o)].k
       IN IF \E i \in 1..Len(front) : front[i] = k THEN front ELSE Append(front, k)

\* v[key] for a str key: the last member of that name wins in json.loads
Subscript(v, key) ==
  IF v.t = "obj" THEN
    LET at == {i \in 1..Len(v.o) : v.o[i].k = key}
    IN IF at = {} THEN Raise("KeyError")
       ELSE Ok(v.o[CHOOSE i \in at : \A j \in at : j <= i].v)
  ELSE Raise("TypeError")

\* len(v)
PyLen(v) ==
  CASE v.t = "arr" -> Ok(Len(v.a))
    [] v.t = "str" -> Ok(Len(v.s))
    [] v.t = "obj" -> Ok(Len(Keys(v.o)))
    [] OTHER -> Raise("TypeError")

\* the values `for link in v` visits (v is one that len accepts)
Items(v) ==
  CASE v.t = "arr" -> v.a
    [] v.t = "str" -> [i \in 1..Len(v.s) |-> JStr(CharAt(v.s, i))]
    [] v.t = "obj" -> [i \in 1..Len(Keys(v.o)) |-> JStr(Keys(v.o)[i])]

\* what an f-string writes for v (str, int and None values)
Format(v) ==
  CASE v.t = "str" -> v.s
    [] v.t = "num" -> Str(v.n)
    [] v.t = "null" -> "None"

\* ------------------------------------------------------------ sys.stdout
\* [buf |-> text held in the stream's buffer, dev |-> text that has reached
\* the terminal or pipe].  On a terminal the stream is line buffered: a
\* write holding a newline is flushed at once.
Flush(o) == [buf |-> "", dev |-> o.dev \o o.buf]
Write(o, s, tty) ==
  LET w == [buf |-> o.buf \o s, dev |-> o.dev]
  IN IF tty /\ Contains(s, "\n") THEN Flush(w) ELSE w
PrintLine(o, s, tty) == Write(o, s \o "\n", tty)
Written(o) == o.dev \o o.buf

\* ------------------------------------------------------------ the program's text
MaxPromptLen == 5000
BorderLen == 60
Border == Rep("=", BorderLen)
Title == "GENERATED BROCHURE"
LandingHead == "## Landing Page:\n\n"
LinksHead == "\n## Relevant Links:\n"
LinkHead == "\n\n### Link: "

LinksPromptHead(url) ==
  "\nHere is the list of links on the website " \o url \o " -\n"
  \o "Please decide which of these are relevant web links for a brochure about the company, \n"
  \o "respond with the full https URL in JSON format.\n"
  \o "Do not include Terms of Service, Privacy, email links.\n"
  \o "\n"
  \o "Links (some might be relative links):\n"
  \o "\n"

Preamble(company_name) ==
  "\nYou are looking at a company called: " \o company_name \o "\n"
  \o "Here are the contents of its landing page and other relevant pages;\n"
  \o "use this information to build a short brochure of the company in markdown without code blocks.\n"
  \o "\n"

\* a slip: the cut one character early, user_prompt[:4_999]
TruncateShort(user_prompt) == SubSeq(user_prompt, 1, Min(Len(user_prompt), MaxPromptLen - 1))

\* user_prompt[:5_000]
Truncate(user_prompt) == SubSeq(user_prompt, 1, Min(Len(user_prompt), MaxPromptLen))

\* the three lines main prints first
Banner(o, a, tty) ==
  PrintLine(PrintLine(PrintLine(o,
    "\n[company] Generating brochure for: " \o a.company_name, tty),
    "[website] Website: " \o a.url, tty),
    "[model] Model: " \o a.model \o "\n", tty)

\* print("\n" + "=" * 60); print("GENERATED BROCHURE"); print("=" * 60 + "\n")
SectionHead(o, tty) ==
  PrintLine(PrintLine(PrintLine(o, "\n" \o Border, tty), Title, tty), Border \o "\n", tty)

\* ------------------------------------------------------------ the outside world
Url == "https://acme.example"
AboutUrl == Url \o "/about"
CareersUrl == Url \o "/careers"
PrivacyUrl == Url \o "/privacy"
CompanyNames == {"Acme", "Hugging Face"}
Models == {"gpt-oss:20b"}
Args == [company_name : CompanyNames, url : {Url}, no_stream : BOOLEAN, model : Models]

\* the page the fetcher serves for url when it serves n characters: every
\* page has a letter of its own
PageChar(url) ==
  CASE url = Url -> "L" [] url = AboutUrl -> "a" [] url = CareersUrl -> "c"
    [] url = PrivacyUrl -> "p" [] OTHER -> "x"
PageText(url, n) == Rep(PageChar(url), n)

\* the landing page that makes the prompt of "Acme" with no links exactly
\* MaxPromptLen characters long
FitLen == MaxPromptLen - Len(Preamble("Acme")) - Len(LandingHead) - Len(LinksHead)
LandingLens == {3, FitLen}
LinkLens == {4, 2600}

RawLinkLists == {<<>>, <<"/about", "/careers", "/privacy">>}

\* the answers of the model to the link-selection request
EntryText(type, url) == "{\"type\": \"" \o type \o "\", \"url\": \"" \o url \o "\"}"
LinksBody(entries) == "{\"links\": [" \o Join(", ", entries) \o "]}"
Entries == {EntryText("about page", AboutUrl), EntryText("careers page", CareersUrl)}
OddBodies ==
  {"not json", "\"not json\"", "{\"links\": [", "[]", "{}", "{\"link\": []}",
   "{\"links\": null}", "{\"links\": 2}", "{\"links\": \"ab\"}",
   "{\"links\": {\"type\": \"about page\"}}",
   LinksBody(<<"{\"type\": \"about page\"}">>),
   LinksBody(<<"{\"url\": \"" \o AboutUrl \o "\"}">>),
   LinksBody(<<EntryText("about page", "")>>),
   LinksBody(<<EntryText("about page", AboutUrl), "null">>)}
Bodies == {LinksBody(es) : es \in SeqsUpTo(Entries, MaxLinks)} \cup OddBodies

\* the incremental fragments of a brochure answer: delta.content is a str
\* or absent (None)
Delta(s) == [present |-> TRUE, content |-> s]
NoContent == [present |-> FALSE, content |-> ""]
Deltas == {NoContent, Delta("# Acme\n"), Delta("Hi")}
Answers == SeqsUpTo(Deltas, MaxFrags)

\* the complete answer the endpoint gives when it is not asked to stream
RECURSIVE FullText(_)
FullText(a) ==
  IF a = <<>> THEN ""
  ELSE (IF a[1].present THEN a[1].content ELSE "") \o FullText(Tail(a))

\* ------------------------------------------------------------ state
VARIABLES
  args,            \* argparse's result: company_name, url, no_stream, model
  isatty,          \* whether standard output is a terminal
  pc,              \* where the run is: the call it waits for, "done" or "failed"
  out,             \* sys.stdout: [buf, dev]
  calls,           \* the outbound calls issued so far, in order
  request,         \* the outbound call in flight, with its arguments
  pages,           \* the pages the fetcher has served: [url, n], in order
  selection,       \* the link-selection response's choices: none until it arrives
  contents,        \* fetch_page_and_all_relevant_links: the landing page's text
  relevant_links,  \* fetch_page_and_all_relevant_links: the selector's result
  link_i,          \* how many links the loop of lines 99-101 has taken up
  result,          \* fetch_page_and_all_relevant_links: the text built so far
  user_prompt,     \* what get_brochure_user_prompt returned
  answer,          \* the model's brochure answer, as its fragments
  pulled,          \* how many fragments stream_brochure has pulled
  response,        \* stream_brochure: the accumulator
  brochure,        \* main: what create_brochure returned
  error            \* the uncaught exception that ended the run
vars ==
  <<args, isatty, pc, out, calls, request, pages, selection, contents, relevant_links,
    link_i, result, user_prompt, answer, pulled, response, brochure, error>>

NoRequest == [op |-> "none"]
NoError == [in |-> "", exc |-> ""]
Nothing == JNull

\* what the log of calls keeps of a call
FetchContents(url) == [op |-> "fetch_website_contents", arg |-> url, stream |-> FALSE]
FetchLinks(url) == [op |-> "fetch_website_links", arg |-> url, stream |-> FALSE]
Chat(system, stream) == [op |-> "chat.completions.create", arg |-> system, stream |-> stream]

Init ==
  /\ args \in Args
  /\ isatty \in BOOLEAN
  /\ pc = "main"
  /\ out = [buf |-> "", dev |-> ""]
  /\ calls = <<>>
  /\ request = NoRequest
  /\ pages = <<>>
  /\ selection = <<>>
  /\ contents = ""
  /\ relevant_links = Nothing
  /\ link_i = 0
  /\ result = ""
  /\ user_prompt = ""
  /\ answer = <<>>
  /\ pulled = 0
  /\ response = ""
  /\ brochure = ""
  /\ error = NoError

\* An exception nothing catches: the interpreter flushes standard output
\* and exits.
Fail(o, fn, exc) ==
  /\ pc' = "failed"
  /\ error' = [in |-> fn, exc |-> exc]
  /\ out' = Flush(o)
  /\ request' = NoRequest

\* a slip: an answer that cannot be used counts as "no links"
SelectLenient(body) ==
  LET links == JsonLoads(body)
      list == Subscript(links.v, "links")
      n == PyLen(list.v)
  IN IF ~links.ok \/ ~list.ok \/ ~n.ok
     THEN [ok |-> TRUE, v |-> JObj(<<[k |-> "links", v |-> JArr(<<>>)]>>),
           found |-> "Found 0 relevant links"]
     ELSE [ok |-> TRUE, v |-> links.v, found |-> "Found " \o Str(n.v) \o " relevant links"]

\* a slip: entries without a usable url are dropped from the list
Usable(e) ==
  /\ e.t = "obj"
  /\ Subscript(e, "url").ok
  /\ Subscript(e, "url").v.t = "str"
  /\ Subscript(e, "url").v.s # ""
SelectFiltered(body) ==
  LET links == JsonLoads(body)
      list == Subscript(links.v, "links")
      n == PyLen(list.v)
      kept == SelectSeq(Items(list.v), Usable)
  IN IF ~links.ok THEN Raise("JSONDecodeError")
     ELSE IF ~list.ok THEN list
     ELSE IF ~n.ok THEN n
     ELSE [ok |-> TRUE, v |-> JObj(<<[k |-> "links", v |-> JArr(kept)]>>),
           found |-> "Found " \o Str(Len(kept)) \o " relevant links"]

\* select_relevant_links, from the model's answer on: the parsed answer and
\* the line "Found n relevant links", or the exception raised
SelectRelevantLinks(body) ==
  LET links == JsonLoads(body)
      list == Subscript(links.v, "links")
      n == PyLen(list.v)
  IN IF ~links.ok THEN Raise("JSONDecodeError")
     ELSE IF ~list.ok THEN list
     ELSE IF ~n.ok THEN n
     ELSE [ok |-> TRUE, v |-> links.v, found |-> "Found " \o Str(n.v) \o " relevant links"]

\* get_brochure_user_prompt from line 113 on, res being what
\* fetch_page_and_all_relevant_links returned
BrochureUserPrompt(company_name, res) == Truncate(Preamble(company_name) \o res)

\* a slip: the links visited last to first
LinksReversed(rl) ==
  LET l == Items(Subscript(rl, "links").v) IN [i \in 1..Len(l) |-> l[Len(l) + 1 - i]]

\* a slip: a link that was already visited is left out
RECURSIVE Dedup(_)
Dedup(l) ==
  IF l = <<>> THEN <<>>
  ELSE LET front == Dedup(SubSeq(l, 1, Len(l) - 1))
       IN IF \E i \in 1..Len(front) : front[i] = l[Len(l)] THEN front
          ELSE Append(front, l[Len(l)])
LinksUnique(rl) == Dedup(Items(Subscript(rl, "links").v))

\* the links the loop of fetch_page_and_all_relevant_links visits
Links(rl) == Items(Subscript(rl, "links").v)

\* a slip: the loop also stops once the text has reached the budget
LoopDoneAtBudget(rl, res, i) == i > Len(Links(rl)) \/ Len(res) >= MaxPromptLen

\* line 99: the loop has no link left to take up
LoopDone(rl, res, i) == i > Len(Links(rl))

\* line 100: the heading of a link's section
LinkSection(res, type) == res \o LinkHead \o Format(type) \o "\n"

\* The loop of fetch_page_and_all_relevant_links about to take up link i, with
\* res built so far: it runs up to the next fetch; after the last link the
\* function returns, get_brochure_user_prompt truncates and the composer
\* issues the brochure request.
LoopFrom(o, rl, res, i) ==
  IF LoopDone(rl, res, i) THEN
    /\ user_prompt' = BrochureUserPrompt(args.company_name, res)
    /\ request' = [op |-> "chat.completions.create", model |-> args.model,
                   system |-> "BROCHURE_SYSTEM_PROMPT", user |-> user_prompt',
                   json |-> FALSE, stream |-> ~args.no_stream]
    /\ calls' = Append(calls, Chat("BROCHURE_SYSTEM_PROMPT", ~args.no_stream))
    /\ pc' = "brochure_request"
    /\ result' = res
    /\ link_i' = i - 1
    /\ out' = o
    /\ error' = error
  ELSE
    LET link == Links(rl)[i]
        type == Subscript(link, "type")
        url == Subscript(link, "url")
    IN IF ~type.ok THEN
         /\ Fail(o, "fetch_page_and_all_relevant_links", type.exc)
         /\ result' = res
         /\ link_i' = i
         /\ UNCHANGED <<user_prompt, calls>>
       ELSE IF ~url.ok THEN
         /\ Fail(o, "fetch_page_and_all_relevant_links", url.exc)
         /\ result' = LinkSection(res, type.v)
         /\ link_i' = i
         /\ UNCHANGED <<user_prompt, calls>>
       ELSE
         /\ result' = LinkSection(res, type.v)
         /\ link_i' = i
         /\ request' = [op |-> "fetch_website_contents", url |-> Format(url.v)]
         /\ calls' = Append(calls, FetchContents(Format(url.v)))
         /\ pc' = "fetch_link"
         /\ out' = o
         /\ UNCHANGED <<user_prompt, error>>

\* main, lines 177-192, down to the first outbound call: the banner, then
\* (through either composer) the fetch of the landing page
Main ==
  /\ pc = "main"
  /\ out' = Banner(out, args, isatty)
  /\ request' = [op |-> "fetch_website_contents", url |-> args.url]
  /\ calls' = Append(calls, FetchContents(args.url))
  /\ pc' = "fetch_landing"
  /\ UNCHANGED <<args, isatty, pages, selection, contents, relevant_links, link_i, result,
                 user_prompt, answer, pulled, response, brochure, error>>

\* The landing page arrives (line 96); select_relevant_links prints its
\* line and get_links_user_prompt asks for the page's links (line 72).
LandingFetched ==
  /\ pc = "fetch_landing"
  /\ \E n \in LandingLens :
       /\ contents' = PageText(request.url, n)
       /\ pages' = Append(pages, [url |-> request.url, n |-> n])
  /\ out' = PrintLine(out, "Selecting relevant links for " \o args.url
                             \o " by calling " \o args.model, isatty)
  /\ request' = [op |-> "fetch_website_links", url |-> args.url]
  /\ calls' = Append(calls, FetchLinks(args.url))
  /\ pc' = "fetch_links"
  /\ UNCHANGED <<args, isatty, selection, relevant_links, link_i, result,
                 user_prompt, answer, pulled, response, brochure, error>>

\* The list of links arrives; the link-selection request goes out (lines
\* 73, 80-87).
LinksFetched ==
  /\ pc = "fetch_links"
  /\ \E links \in RawLinkLists :
       request' = [op |-> "chat.completions.create", model |-> args.model,
                   system |-> "LINK_SYSTEM_PROMPT",
                   user |-> LinksPromptHead(args.url) \o Join("\n", links),
                   json |-> TRUE, stream |-> FALSE]
  /\ calls' = Append(calls, Chat("LINK_SYSTEM_PROMPT", FALSE))
  /\ pc' = "select_request"
  /\ UNCHANGED <<args, isatty, out, pages, selection, contents, relevant_links, link_i,
                 result, user_prompt, answer, pulled, response, brochure, error>>

\* The model's selection arrives (lines 88-91); then lines 98-101 up to the
\* first link's fetch.
LinksSelected ==
  /\ pc = "select_request"
  /\ \E body \in Bodies :
       LET sel == SelectRelevantLinks(body)
       IN /\ selection' = <<body>>
          /\ IF ~sel.ok THEN
               /\ Fail(out, "select_relevant_links", sel.exc)
               /\ UNCHANGED <<relevant_links, link_i, result, user_prompt, calls>>
             ELSE
               /\ relevant_links' = sel.v
               /\ LoopFrom(PrintLine(out, sel.found, isatty), sel.v,
                           LandingHead \o contents \o LinksHead, 1)
  /\ UNCHANGED <<args, isatty, pages, contents, answer, pulled, response, brochure>>

\* A link's page arrives (line 101); the loop goes on.
LinkFetched ==
  /\ pc = "fetch_link"
  /\ \E n \in LinkLens :
       /\ pages' = Append(pages, [url |-> request.url, n |-> n])
       /\ LoopFrom(out, relevant_links, result \o PageText(request.url, n), link_i + 1)
  /\ UNCHANGED <<args, isatty, selection, contents, relevant_links, answer, pulled,
                 response, brochure>>

\* a slip: a link whose fetch fails is skipped
FetchSkipped ==
  \/ /\ pc \in {"fetch_landing", "fetch_links"}
     /\ Fail(out, request.op, "RequestException")
     /\ UNCHANGED <<args, isatty, calls, pages, selection, contents, relevant_links,
                    link_i, result, user_prompt, answer, pulled, response, brochure>>
  \/ /\ pc = "fetch_link"
     /\ LoopFrom(out, relevant_links, result, link_i + 1)
     /\ UNCHANGED <<args, isatty, pages, selection, contents, relevant_links, answer,
                    pulled, response, brochure>>

\* The fetcher raises: nothing catches it.
FetchFails ==
  /\ pc \in {"fetch_landing", "fetch_links", "fetch_link"}
  /\ Fail(out, request.op, "RequestException")
  /\ UNCHANGED <<args, isatty, calls, pages, selection, contents, relevant_links, link_i,
                 result, user_prompt, answer, pulled, response, brochure>>

\* The model endpoint raises, on either request or while streaming.
ModelFails ==
  /\ pc \in {"select_request", "brochure_request", "streaming"}
  /\ Fail(out, "chat.completions.create", "APIError")
  /\ UNCHANGED <<args, isatty, calls, pages, selection, contents, relevant_links, link_i,
                 result, user_prompt, answer, pulled, response, brochure>>

\* --no-stream: the complete answer arrives (line 127); main prints the
\* section and the brochure (lines 187-190) and the run ends.
BrochureCreated ==
  /\ pc = "brochure_request"
  /\ args.no_stream
  /\ \E a \in Answers :
       /\ answer' = a
       /\ brochure' = FullText(a)
       /\ out' = Flush(PrintLine(SectionHead(out, isatty), FullText(a), isatty))
  /\ pulled' = 0
  /\ request' = NoRequest
  /\ pc' = "done"
  /\ UNCHANGED <<args, isatty, calls, pages, selection, contents, relevant_links, link_i,
                 result, user_prompt, response, error>>

\* Streaming: the request returns the stream (line 132); lines 140-143.
StreamOpened ==
  /\ pc = "brochure_request"
  /\ ~args.no_stream
  /\ answer' \in Answers
  /\ pulled' = 0
  /\ response' = ""
  /\ out' = SectionHead(out, isatty)
  /\ pc' = "streaming"
  /\ UNCHANGED <<args, isatty, calls, request, pages, selection, contents, relevant_links,
                 link_i, result, user_prompt, brochure, error>>

\* line 145: chunk.choices[0].delta.content or ""
ChunkContent(chunk) == IF chunk.present /\ chunk.content # "" THEN chunk.content ELSE ""

\* a slip: the fragment goes in front of the accumulator
AccumulateFront(resp, content) == content \o resp

\* line 146
Accumulate(resp, content) == resp \o content

\* a slip: the flush is missing
EmitUnflushed(o, content, tty) == Write(o, content, tty)

\* lines 147-148: sys.stdout.write(content); sys.stdout.flush()
Emit(o, content, tty) == Flush(Write(o, content, tty))

\* One turn of the loop of lines 144-148.
StreamChunk ==
  /\ pc = "streaming"
  /\ pulled < Len(answer)
  /\ LET content == ChunkContent(answer[pulled + 1])
     IN /\ response' = Accumulate(response, content)
        /\ out' = Emit(out, content, isatty)
  /\ pulled' = pulled + 1
  /\ UNCHANGED <<args, isatty, pc, calls, request, pages, selection, contents, relevant_links,
                 link_i, result, user_prompt, answer, brochure, error>>

\* The stream is exhausted: line 149, the return, and main ends.
StreamEnded ==
  /\ pc = "streaming"
  /\ pulled = Len(answer)
  /\ out' = Flush(PrintLine(out, "\n\n" \o Border, isatty))
  /\ request' = NoRequest
  /\ pc' = "done"
  /\ UNCHANGED <<args, isatty, calls, pages, selection, contents, relevant_links, link_i,
                 result, user_prompt, answer, pulled, response, brochure, error>>

Next ==
  \/ Main
  \/ LandingFetched
  \/ LinksFetched
  \/ LinksSelected
  \/ LinkFetched
  \/ FetchFails
  \/ ModelFails
  \/ BrochureCreated
  \/ StreamOpened
  \/ StreamChunk
  \/ StreamEnded

Spec == Init /\ [][Next]_vars

TypeOK ==
  /\ pc \in {"main", "fetch_landing", "fetch_links", "select_request", "fetch_link",
             "brochure_request", "streaming", "done", "failed"}
  /\ args \in Args
  /\ Len(selection) <= 1
  /\ pulled <= Len(answer)

\* ------------------------------------------------------------ reading the state
\* the member of the JSON object v named key, read off the parsed document
Member(v, key) == v.o[CHOOSE i \in 1..Len(v.o) : v.o[i].k = key /\ \A j \in (i + 1)..Len(v.o) : v.o[j].k # key]
HasMember(v, key) == v.t = "obj" /\ \E i \in 1..Len(v.o) : v.o[i].k = key

\* the link records of the selector's result, in the order of the document
SelectedLinks ==
  IF HasMember(relevant_links, "links") /\ Member(relevant_links, "links").v.t = "arr"
  THEN Member(relevant_links, "links").v.a ELSE <<>>
\* a link record's type and url ("" for an entry that has none)
TypeOf(link) == IF HasMember(link, "type") THEN Member(link, "type").v.s ELSE ""
UrlOf(link) == IF HasMember(link, "url") THEN Member(link, "url").v.s ELSE ""
HasUrl(link) ==
  /\ HasMember(link, "url")
  /\ Member(link, "url").v.t = "str"
  /\ Member(link, "url").v.s # ""

\* the link-selection answer has arrived and select_relevant_links returned
SelectorReturned ==
  selection # <<>> /\ ~(pc = "failed" /\ error.in = "select_relevant_links")

\* get_brochure_user_prompt has returned (the brochure request is out)
PromptBuilt == pc = "brochure_request"

\* preamble and aggregate before the cut
Combined == Preamble(args.company_name) \o result

\* the places where sub starts in s, in increasing order
Places(s, sub) ==
  LET at == {i \in 1..(Len(s) - Len(sub) + 1) : SubSeq(s, i, i + Len(sub) - 1) = sub}
  IN [k \in 1..Cardinality(at) |-> CHOOSE i \in at : Cardinality({j \in at : j < i}) = k - 1]

\* the link sections of links, filled with the pages pgs
RECURSIVE Sections(_, _)
Sections(links, pgs) ==
  IF links = <<>> THEN ""
  ELSE LinkHead \o TypeOf(links[1]) \o "\n" \o PageText(pgs[1].url, pgs[1].n)
       \o Sections(Tail(links), Tail(pgs))

BannerText ==
  "\n[company] Generating brochure for: " \o args.company_name
  \o "\n[website] Website: " \o args.url
  \o "\n[model] Model: " \o args.model \o "\n\n"
SectionHeadText == "\n" \o Border \o "\n" \o Title \o "\n" \o Border \o "\n\n"

ContentCalls == Len(SelectSeq(calls, LAMBDA c : c.op = "fetch_website_contents"))
BrochureCalls == Len(SelectSeq(calls, LAMBDA c : c.arg = "BROCHURE_SYSTEM_PROMPT"))
FirstCalls ==
  <<FetchContents(args.url), FetchLinks(args.url), Chat("LINK_SYSTEM_PROMPT", FALSE)>>

\* the answer is not JSON, or is JSON without a "links" key
MalformedSelection(body) ==
  LET r == JsonLoads(body) IN ~r.ok \/ ~HasMember(r.v, "links")

\* a fetch of page text was issued and not served, and is no longer awaited
FetchHasFailed ==
  pc \notin {"fetch_landing", "fetch_link"} /\ ContentCalls > Len(pages)

\* the calls of a run that selects SelectedLinks, start to end
ExpectedCalls ==
  FirstCalls
  \o [i \in 1..Len(SelectedLinks) |-> FetchContents(UrlOf(SelectedLinks[i]))]
  \o <<Chat("BROCHURE_SYSTEM_PROMPT", ~args.no_stream)>>

\* ------------------------------------------------------------ claims

\* C1: get_brochure_user_prompt returns the first 5,000 characters of the
\* combined text (preamble, then what fetch_page_and_all_relevant_links
\* returned) when that is longer than 5,000 characters, and the combined text
\* itself otherwise; the result never has more than 5,000 characters.
C1_Truncation ==
  PromptBuilt =>
    /\ Len(user_prompt) <= 5000
    /\ Len(Combined) > 5000 =>
         Len(user_prompt) = 5000 /\ user_prompt = SubSeq(Combined, 1, 5000)
    /\ Len(Combined) <= 5000 => user_prompt = Combined

\* C1's case: two links fetched and a combined text over the budget
C1_Witness == PromptBuilt /\ Len(pages) = 3 /\ Len(Combined) > 5000

\* C2: what fetch_page_and_all_relevant_links returns is the landing-page
\* section followed by one section per link of the selector's list, in the
\* list's order, repeated links included, each section made of the type of
\* the link at that position and of the page fetched from that link's url.
C2_AggregationOrder ==
  PromptBuilt =>
    /\ Len(pages) = Len(SelectedLinks) + 1
    /\ pages[1].url = args.url
    /\ \A i \in 1..Len(SelectedLinks) : pages[i + 1].url = UrlOf(SelectedLinks[i])
    /\ result = LandingHead \o PageText(pages[1].url, pages[1].n) \o LinksHead
                \o Sections(SelectedLinks, Tail(pages))

\* C2's case: the same link selected twice
C2_Witness ==
  /\ PromptBuilt
  /\ Len(SelectedLinks) = 2
  /\ UrlOf(SelectedLinks[1]) = UrlOf(SelectedLinks[2])
  /\ pages[2].n # pages[3].n

\* C3 as stated: the prompt get_brochure_user_prompt returns holds the
\* landing-page section, the "Relevant Links" heading and exactly one
\* "### Link:" section per selected link, in the selected order.
C3_AsStated ==
  PromptBuilt =>
    /\ Contains(user_prompt, LandingHead)
    /\ Contains(user_prompt, "## Relevant Links:")
    /\ Occurrences(user_prompt, "### Link:") = Len(SelectedLinks)
    /\ \A k \in 1..Len(SelectedLinks) :
         StartsWith(Drop(user_prompt, Places(user_prompt, "### Link:")[k]),
                    "### Link: " \o TypeOf(SelectedLinks[k]) \o "\n")

\* C3 amended: when preamble and aggregate together have at most 5,000
\* characters the prompt holds the landing-page section, the "Relevant Links"
\* heading and exactly one "### Link:" section per selected link in the
\* selected order (none, and the heading last, when nothing was selected),
\* and names no unselected link; when they have more, the prompt is their
\* first 5,000 characters and holds only the sections, or parts of sections,
\* that begin there.
C3_SectionsWithinBudget ==
  PromptBuilt =>
    LET n == Len(SelectedLinks)
        at == Places(user_prompt, "### Link:")
    IN /\ StartsWith(Combined, user_prompt)
       /\ Len(user_prompt) = Min(Len(Combined), 5000)
       /\ Len(at) <= n
       /\ \A k \in 1..Len(at) :
            LET rest == Drop(user_prompt, at[k])
                head == "### Link: " \o TypeOf(SelectedLinks[k]) \o "\n"
            IN StartsWith(rest, head) \/ StartsWith(head, rest)
       /\ ~Contains(user_prompt, "privacy")
       /\ Len(Combined) <= 5000 =>
            /\ Occurrences(user_prompt, LandingHead) = 1
            /\ Occurrences(user_prompt, "## Relevant Links:") = 1
            /\ Len(at) = n
            /\ n = 0 => EndsWith(user_prompt, PageText(args.url, pages[1].n) \o LinksHead)

\* C3's case: "about page" and "careers page" selected, within the budget
C3_Witness ==
  /\ PromptBuilt
  /\ Len(SelectedLinks) = 2
  /\ TypeOf(SelectedLinks[1]) = "about page"
  /\ TypeOf(SelectedLinks[2]) = "careers page"
  /\ Len(Combined) <= 5000
  /\ Occurrences(user_prompt, "### Link:") = 2

\* C4: stream_brochure returns the concatenation of the fragments' contents
\* in arrival order (an absent content adding nothing), which is what
\* create_brochure returns for the same complete answer.
C4_StreamAccumulates ==
  pc = "done" =>
    IF args.no_stream THEN brochure = FullText(answer) ELSE response = FullText(answer)

\* C4's case: a stream of two fragments, the first without content
C4_Witness ==
  /\ pc = "done"
  /\ ~args.no_stream
  /\ Len(answer) = 2
  /\ ~answer[1].present
  /\ response = "Hi"

\* C5: when a link-selection answer arrives that is not JSON, or is JSON
\* without a "links" key, the run fails inside select_relevant_links: only the
\* landing page and the list of links have been fetched, and a failed run
\* takes no further step.
C5_MalformedSelectionFails ==
  [][/\ (selection = <<>> /\ selection' # <<>> /\ MalformedSelection(selection'[1])) =>
          /\ pc' = "failed"
          /\ error'.in = "select_relevant_links"
          /\ calls' = FirstCalls
          /\ pages' = <<[url |-> args.url, n |-> pages[1].n]>>
          /\ relevant_links' = Nothing
      /\ pc # "failed"]_vars

\* C5's case: the answer "not json"
C5_Witness == selection = <<"not json">> /\ pc = "failed"

\* C6 as stated: every entry of the list select_relevant_links returns has a
\* non-empty url.
C6_AsStated ==
  SelectorReturned => \A i \in 1..Len(SelectedLinks) : HasUrl(SelectedLinks[i])

\* C6 amended: select_relevant_links returns, once, the model's JSON object
\* as parsed, unchecked: every entry of the returned list is the model's entry at
\* that position, and has a non-empty url only if the model gave it one.
C6_SelectionEchoed ==
  [][(selection' # selection \/ relevant_links' # relevant_links) =>
       /\ selection = <<>> /\ relevant_links = Nothing
       /\ IF SelectorReturned'
          THEN /\ JsonLoads(selection'[1]).ok
               /\ relevant_links' = JsonLoads(selection'[1]).v
               /\ selection'[1] = LinksBody(<<EntryText("about page", "")>>) =>
                    Len(SelectedLinks') = 1 /\ UrlOf(SelectedLinks'[1]) = ""
          ELSE relevant_links' = Nothing]_vars

\* C6's case: the model gives one entry with an empty url, which is returned
C6_Witness ==
  /\ SelectorReturned
  /\ Len(SelectedLinks) = 1
  /\ HasMember(SelectedLinks[1], "url")
  /\ UrlOf(SelectedLinks[1]) = ""

\* C7: once a page fetch (landing page or link) has failed the run is over:
\* the failed fetch is the last call made, nothing was fetched in its place,
\* no brochure request was issued and the "GENERATED BROCHURE" section is not
\* on standard output, with and without --no-stream.
C7_FetchFailureIsFatal ==
  FetchHasFailed =>
    /\ pc = "failed"
    /\ error.in = "fetch_website_contents"
    /\ calls[Len(calls)].op = "fetch_website_contents"
    /\ ContentCalls = Len(pages) + 1
    /\ BrochureCalls = 0
    /\ ~Contains(Written(out), Title)
    /\ ~ENABLED Next

\* C7's case: the second link's fetch fails
C7_Witness ==
  /\ FetchHasFailed
  /\ Len(pages) = 2
  /\ Len(SelectedLinks) = 2
  /\ link_i = 2

\* C8 as stated: a finished run has written the banner first and, last, the
\* section: border, title, border, the brochure, and a closing border line.
C8_AsStated ==
  pc = "done" =>
    LET text == IF args.no_stream THEN brochure ELSE response
    IN /\ StartsWith(out.dev, BannerText)
       /\ \E k \in 0..2 :
            EndsWith(out.dev, SectionHeadText \o text \o Rep("\n", k) \o Border \o "\n")

\* C9: while streaming, what has been written since the section head is the
\* accumulator, which is the contents of the fragments pulled so far in their
\* order; once a fragment has been handled nothing is left in the buffer; and
\* the function returns only when every fragment has been pulled.
C9_StreamInOrder ==
  /\ pc = "streaming" =>
       /\ response = FullText(SubSeq(answer, 1, pulled))
       /\ EndsWith(Written(out), SectionHeadText \o response)
       /\ pulled > 0 => out.buf = "" /\ EndsWith(out.dev, SectionHeadText \o response)
  /\ (pc = "done" /\ ~args.no_stream) =>
       /\ pulled = Len(answer)
       /\ EndsWith(out.dev, SectionHeadText \o FullText(answer) \o "\n\n" \o Border \o "\n")

\* C9's case: the first of two fragments handled, off a terminal
C9_Witness ==
  /\ pc = "streaming"
  /\ ~isatty
  /\ Len(answer) = 2
  /\ pulled = 1
  /\ response = "Hi"

\* C10: a finished run has made exactly these calls in this order: the
\* landing page, the list of links, the link selection, one fetch per selected
\* link in the selected order, the brochure request.  Every link is fetched
\* however long the text already is, and the section is not written before
\* the brochure request.
C10_CallOrder ==
  /\ pc = "done" =>
       /\ calls = ExpectedCalls
       /\ Len(pages) = Len(SelectedLinks) + 1
  /\ BrochureCalls = 0 => ~Contains(Written(out), Title)
  /\ (pc \in {"main", "done", "failed"}) = (request = NoRequest)

\* C10's case: the budget is used up by the landing page and both links are
\* fetched all the same
C10_Witness ==
  /\ pc = "done"
  /\ Len(SelectedLinks) = 2
  /\ pages[1].n = FitLen
  /\ Len(pages) = 3
====
